---- MODULE Spec2Model ----
(***************************************************************************)
(* ReplayBuffer of sc2reader/utils.py: a bit/byte cursor over an in-memory *)
(* byte string (cStringIO) and the decoders layered on it.                 *)
(*                                                                         *)
(* Every method is a pure operator from a cursor record                    *)
(*   [pos, bit_shift, last_byte]                                           *)
(* to a result record that adds the returned value (ret, always a          *)
(* sequence: a scalar v is <<v>>, None is <<>>) and the exception raised   *)
(* (exc, "none" when the call returns).  A raised exception keeps the      *)
(* state changes made before the raise, as the Python object does.         *)
(***************************************************************************)
EXTENDS Integers, Sequences, FiniteSets, TLC

VARIABLES buf,        \* the bytes held by self.io
          pos,        \* self.io.tell()
          bit_shift,  \* self.bit_shift
          last_byte,  \* self.last_byte
          op,         \* name of the last method called
          args,       \* its arguments
          ret,        \* what it returned
          exc,        \* the exception it raised, "none" if it returned
          pre         \* the cursor the call started from

vars == <<buf, pos, bit_shift, last_byte, op, args, ret, exc, pre>>

----------------------------------------------------------------------------
(* Bounds of the model *)

MaxLen == 3        \* longest buffer
MaxSeek == MaxLen + 1   \* largest seek target, and cap on the byte offset
MaxRead == 2       \* largest byte count passed to a read
MaxBits == 9       \* largest bit count passed to shift / read

\* byte values the buffers are built from
ByteVals == {147, 108}

----------------------------------------------------------------------------
(* Python values and operators *)

None == 0 - 1
SEEK_SET == 0
SEEK_CUR == 1
SEEK_END == 2

Min(a, b) == IF a < b THEN a ELSE b
Max(a, b) == IF a > b THEN a ELSE b

RECURSIVE BitAnd(_, _)
BitAnd(a, b) == IF a = 0 \/ b = 0 THEN 0
                ELSE (a % 2) * (b % 2) + 2 * BitAnd(a \div 2, b \div 2)

RECURSIVE BitOr(_, _)
BitOr(a, b) == IF a = 0 THEN b
               ELSE IF b = 0 THEN a
               ELSE Max(a % 2, b % 2) + 2 * BitOr(a \div 2, b \div 2)

RECURSIVE BitXor(_, _)
BitXor(a, b) == IF a = 0 THEN b
                ELSE IF b = 0 THEN a
                ELSE ((a + b) % 2) + 2 * BitXor(a \div 2, b \div 2)

ShiftR(a, n) == a \div (2 ^ n)
ShiftL(a, n) == a * (2 ^ n)

----------------------------------------------------------------------------
(* The cursor and the underlying cStringIO object *)

length == Len(buf)

Cursor(p, bs, lb) == [pos |-> p, bit_shift |-> bs, last_byte |-> lb]

\* result of a call: the cursor it leaves, the value, the exception
Result(p, bs, lb, r, e) ==
    [pos |-> p, bit_shift |-> bs, last_byte |-> lb, ret |-> r, exc |-> e]

Return(c, r) == Result(c.pos, c.bit_shift, c.last_byte, r, "none")
Raise(c, e) == Result(c.pos, c.bit_shift, c.last_byte, <<>>, e)

\* the position self.io.seek(position, mode) asks for
io_target(c, position, mode) ==
    IF mode = SEEK_END THEN position + length
    ELSE IF mode = SEEK_CUR THEN position + c.pos
    ELSE position

\* mutant: the target is not clamped at 0
io_clamp_unclamped(c, target) ==
    Cursor(target, c.bit_shift, c.last_byte)

\* a negative target is clamped to 0, a target past the end is kept
io_clamp(c, target) ==
    Cursor(IF target < 0 THEN 0 ELSE target, c.bit_shift, c.last_byte)

io_seek(c, position, mode) == io_clamp(c, io_target(c, position, mode))

\* number of bytes self.io.read(n) hands out, n >= 0
io_avail(c, n) == Min(n, Max(0, length - c.pos))

io_read(c, m) ==
    Return(Cursor(c.pos + m, c.bit_shift, c.last_byte),
           SubSeq(buf, c.pos + 1, c.pos + m))

\* self.read_basic(n): up to n bytes, fewer at the end of the buffer
read_basic(c, n) == io_read(c, io_avail(c, n))

\* ord(chars): TypeError unless chars is one character
ord(r) == IF Len(r.ret) = 1 THEN r ELSE Raise(r, "TypeError")

ord_read_basic(c) == ord(read_basic(c, 1))

\* self.last_byte = <the byte r returned>
set_last_byte(r) ==
    IF r.exc # "none" THEN r
    ELSE Return(Cursor(r.pos, r.bit_shift, r.ret[1]), <<>>)

\* except TypeError: raise EOFError(...)
eof_on_type_error(r) ==
    IF r.exc = "TypeError" THEN Raise(r, "EOFError") ELSE r

----------------------------------------------------------------------------
(* Stream manipulation *)

tell(c) == c.pos

left(c) == length - c.pos

\* mutant: the byte before the new offset is not loaded again
seek_no_reload(c1) == Return(c1, <<>>)

seek_reload(c1) ==
    IF c1.pos # 0 /\ c1.bit_shift # 0
    THEN set_last_byte(ord_read_basic(io_seek(c1, 0 - 1, SEEK_CUR)))
    ELSE Return(c1, <<>>)

seek(c, position, mode) == seek_reload(io_seek(c, position, mode))

skip(c, amount) == seek(c, amount, SEEK_CUR)

reset(c) == Return(Cursor(io_seek(c, 0, SEEK_SET).pos, 0, c.last_byte), <<>>)

align(c) == Return(Cursor(c.pos, 0, c.last_byte), <<>>)

read_range_back(r, current) == Return(io_seek(r, current, SEEK_SET), r.ret)

read_range(c, start, end) ==
    read_range_back(read_basic(io_seek(c, start, SEEK_SET), end - start), c.pos)

----------------------------------------------------------------------------
(* Base read functions *)

lo_masks == <<0, 1, 3, 7, 15, 31, 63, 127, 255>>

\* mutant: the cached byte is masked without being shifted down first
shift_take_unshifted(r, old_shift, bits) ==
    IF r.exc # "none" THEN r
    ELSE IF r.last_byte = None THEN Raise(r, "TypeError")
    ELSE Return(Cursor(r.pos,
                       IF old_shift + bits = 8 THEN 0 ELSE old_shift + bits,
                       r.last_byte),
                <<BitAnd(r.last_byte, lo_masks[bits + 1])>>)

\* ret = (self.last_byte >> bit_shift) & self.lo_masks[bits], then the new
\* bit_shift; r is the cursor after the byte was loaded
shift_take(r, old_shift, bits) ==
    IF r.exc # "none" THEN r
    ELSE IF r.last_byte = None THEN Raise(r, "TypeError")
    ELSE Return(Cursor(r.pos,
                       IF old_shift + bits = 8 THEN 0 ELSE old_shift + bits,
                       r.last_byte),
                <<BitAnd(ShiftR(r.last_byte, old_shift), lo_masks[bits + 1])>>)

\* the block under try: in shift
shift_try(c, bits) ==
    IF c.bit_shift + bits <= 8
    THEN shift_take(IF c.bit_shift = 0 THEN set_last_byte(ord_read_basic(c))
                    ELSE Return(c, <<>>),
                    c.bit_shift, bits)
    ELSE Raise(c, "ValueError")

shift(c, bits) == eof_on_type_error(shift_try(c, bits))

load_masks(old_bit_shift, new_bit_shift, lo_mask, lo_mask_inv, adjustment) ==
    [old_bit_shift_inv |-> 8 - old_bit_shift,
     lo_mask |-> lo_mask,
     lo_mask_inv |-> lo_mask_inv,
     hi_mask |-> BitXor(255, lo_mask),
     hi_mask_inv |-> BitXor(255, lo_mask_inv),
     last_mask |-> IF new_bit_shift = 0 THEN 255 ELSE 2 ^ new_bit_shift - 1,
     adjustment |-> adjustment,
     \* 2**adjustment-1 is a float for a negative adjustment and is then
     \* never used; 0 stands for it
     adjustment_mask |-> IF adjustment >= 0 THEN 2 ^ adjustment - 1 ELSE 0]

load_state(old_bit_shift, new_bit_shift) ==
    load_masks(old_bit_shift, new_bit_shift,
               2 ^ old_bit_shift - 1,
               255 - 2 ^ (8 - old_bit_shift) + 1,
               IF new_bit_shift = 0 THEN 8 - old_bit_shift
               ELSE new_bit_shift - old_bit_shift)

read_state == [old \in 0..7 |-> [new \in 0..7 |-> load_state(old, new)]]

\* [ord(self.read_basic(1)) for byte in range(bytes)]
RECURSIVE read_base(_, _, _)
RECURSIVE read_base_next(_, _, _)
read_base(c, bytes, base) ==
    IF bytes = 0 THEN Return(c, base)
    ELSE read_base_next(ord_read_basic(c), bytes, base)

read_base_next(b, bytes, base) ==
    IF b.exc # "none" THEN b
    ELSE read_base(b, bytes - 1, Append(base, b.ret[1]))

\* the byte-aligned case of read: whole bytes, then shift the rest
read_aligned_rest(base, s) ==
    IF s.exc # "none" THEN s ELSE Return(s, base.ret \o s.ret)

\* mutant: the bits after the whole bytes are not read
read_aligned_whole(base, bits) == base

read_aligned(base, bits) ==
    IF base.exc # "none" THEN base
    ELSE IF bits # 0 THEN read_aligned_rest(base, shift(base, bits))
    ELSE base

\* mutant: a last byte that spills over adds the merged value only
read_last_single(st, first, last) ==
    IF st.adjustment < 0
    THEN <<BitOr(ShiftR(first, 0 - st.adjustment), last)>>
    ELSE IF st.adjustment > 0
    THEN <<BitOr(first, ShiftR(last, st.adjustment))>>
    ELSE <<BitOr(first, last)>>

\* what the last byte adds to raw_bytes
read_last(st, first, last) ==
    IF st.adjustment < 0
    THEN <<BitOr(ShiftR(first, 0 - st.adjustment), last)>>
    ELSE IF st.adjustment > 0
    THEN <<BitAnd(last, st.adjustment_mask),
           BitOr(first, ShiftR(last, st.adjustment))>>
    ELSE <<BitOr(first, last)>>

\* the while loop of the general case; c carries the byte offset and the
\* old bit_shift and last_byte, which are only replaced after the loop
RECURSIVE read_loop(_, _, _, _, _, _)
RECURSIVE read_loop_next(_, _, _, _, _, _)
read_loop(c, st, first, next, bit_count, raw_bytes) ==
    IF bit_count <= 0 THEN Return(Cursor(c.pos, c.bit_shift, next), raw_bytes)
    ELSE IF bit_count <= 8
    THEN read_loop(c, st, first, next, 0,
                   raw_bytes \o read_last(st, first, BitAnd(next, st.last_mask)))
    ELSE read_loop_next(ord_read_basic(c), st,
                        ShiftL(BitAnd(next, st.hi_mask_inv), c.bit_shift),
                        c, bit_count - 8,
                        Append(raw_bytes,
                               BitOr(first,
                                     ShiftR(BitAnd(next, st.lo_mask_inv),
                                            st.old_bit_shift_inv))))

read_loop_next(b, st, first, c, bit_count, raw_bytes) ==
    IF b.exc # "none" THEN b
    ELSE read_loop(Cursor(b.pos, c.bit_shift, c.last_byte), st, first,
                   b.ret[1], bit_count, raw_bytes)

\* self.last_byte = next; self.bit_shift = new_bit_shift; return raw_bytes
read_general_end(r, new_bit_shift) ==
    IF r.exc # "none" THEN r
    ELSE Return(Cursor(r.pos, new_bit_shift, r.last_byte), r.ret)

\* prev, next = self.last_byte, ord(self.read_basic(1)) and the loop
read_general_loop(c, st, b, bit_count) ==
    IF b.exc # "none" THEN b
    ELSE IF c.last_byte = None THEN Raise(b, "TypeError")
    ELSE read_loop(Cursor(b.pos, c.bit_shift, c.last_byte), st,
                   BitAnd(c.last_byte, st.hi_mask), b.ret[1],
                   bit_count - st.old_bit_shift_inv, <<>>)

read_general(c, new_bit_shift, bit_count) ==
    read_general_end(read_general_loop(c, read_state[c.bit_shift][new_bit_shift],
                                       ord_read_basic(c), bit_count),
                     new_bit_shift)

\* the four cases of read, bytes and bits normalised
read_cases(c, bytes, bits, bit_count) ==
    IF bit_count = 0 THEN Return(c, <<>>)
    ELSE IF bit_count <= 8 - c.bit_shift THEN shift(c, bit_count)
    ELSE IF c.bit_shift = 0 THEN read_aligned(read_base(c, bytes, <<>>), bits)
    ELSE read_general(c, (c.bit_shift + bits) % 8, bit_count)

read_normal(c, bytes, bits) == read_cases(c, bytes, bits, bytes * 8 + bits)

\* the block under try: in read
read_try(c, bytes, bits) == read_normal(c, bytes + bits \div 8, bits % 8)

read(c, bytes, bits) == eof_on_type_error(read_try(c, bytes, bits))

----------------------------------------------------------------------------
(* "Basic" structures *)

LITTLE_ENDIAN == 0
BIG_ENDIAN == 1

\* chr(byte) for each byte of a list: ValueError outside range(256)
chars_of(r) ==
    IF r.exc # "none" THEN r
    ELSE IF \E i \in 1..Len(r.ret) : r.ret[i] < 0 \/ r.ret[i] > 255
    THEN Raise(r, "ValueError")
    ELSE r

read_chars(c, len) ==
    IF c.bit_shift = 0 THEN read_basic(c, len) ELSE chars_of(read(c, len, 0))

HexDigits == <<"0", "1", "2", "3", "4", "5", "6", "7",
               "8", "9", "a", "b", "c", "d", "e", "f">>

\* str.encode("hex"): two lowercase digits per character, high nibble first
hex_encode(chars) ==
    [i \in 1..(2 * Len(chars)) |->
        HexDigits[(IF i % 2 = 1 THEN chars[(i + 1) \div 2] \div 16
                   ELSE chars[(i + 1) \div 2] % 16) + 1]]

hex_of(r) == IF r.exc # "none" THEN r ELSE Return(r, hex_encode(r.ret))

read_hex(c, len) == hex_of(read_chars(c, len))

first_of(r) == IF r.exc # "none" THEN r ELSE Return(r, <<r.ret[1]>>)

read_byte(c) ==
    IF c.bit_shift = 0 THEN ord_read_basic(c) ELSE first_of(read(c, 1, 0))

\* struct.unpack(endian + 'H' / 'I', chars)[0]: struct.error unless chars
\* has exactly size characters
RECURSIVE unpack_le(_)
unpack_le(chars) ==
    IF chars = <<>> THEN 0 ELSE Head(chars) + 256 * unpack_le(Tail(chars))

RECURSIVE unpack_be(_)
unpack_be(chars) ==
    IF chars = <<>> THEN 0
    ELSE chars[Len(chars)] + 256 * unpack_be(SubSeq(chars, 1, Len(chars) - 1))

struct_unpack(r, endian, size) ==
    IF r.exc # "none" THEN r
    ELSE IF Len(r.ret) # size THEN Raise(r, "struct.error")
    ELSE Return(r, <<IF endian = LITTLE_ENDIAN THEN unpack_le(r.ret)
                       ELSE unpack_be(r.ret)>>)

\* the characters read_short / read_int unpack
read_fixed(c, size) ==
    IF c.bit_shift = 0 THEN read_basic(c, size) ELSE read_chars(c, size)

read_short(c, endian) == struct_unpack(read_fixed(c, 2), endian, 2)

read_int(c, endian) == struct_unpack(read_fixed(c, 4), endian, 4)

\* self.seek(start, os.SEEK_SET); self.last_byte = last; return ret
peek_restore(s, last, hex) ==
    IF s.exc # "none" THEN s
    ELSE Return(Cursor(s.pos, s.bit_shift, last), hex)

peek_back(r, start, last) ==
    IF r.exc # "none" THEN r
    ELSE peek_restore(seek(r, start, SEEK_SET), last, r.ret)

peek(c, len) == peek_back(read_hex(c, len), c.pos, c.last_byte)

----------------------------------------------------------------------------
(* Replay-specific structures *)

halve(r) == IF r.exc # "none" THEN r ELSE Return(r, <<r.ret[1] \div 2>>)

read_count(c) == halve(read_byte(c))

\* mutant: the sign flag is dropped
signed_positive(value) == ShiftR(value, 1)

\* pow(-1, value & 0x1) * (value >> 1)
signed(value) ==
    (IF BitAnd(value, 1) = 1 THEN 0 - 1 ELSE 1) * ShiftR(value, 1)

\* the while loop of read_variable_int: byte is the last byte read, shft the
\* local called shift
RECURSIVE variable_int_loop(_, _, _, _)
RECURSIVE variable_int_next(_, _, _)
variable_int_loop(c, byte, shft, value) ==
    IF BitAnd(byte, 128) # 0
    THEN variable_int_next(read_byte(c), shft, value)
    ELSE Return(c, <<signed(value)>>)

variable_int_next(r, shft, value) ==
    IF r.exc # "none" THEN r
    ELSE variable_int_loop(r, r.ret[1], shft + 1,
                           BitOr(ShiftL(BitAnd(r.ret[1], 127), shft * 7), value))

variable_int_first(r) ==
    IF r.exc # "none" THEN r
    ELSE variable_int_loop(r, r.ret[1], 1, BitAnd(r.ret[1], 127))

read_variable_int(c) == variable_int_first(read_byte(c))

\* mutant: the length byte is halved, as a count byte is
read_string_halved(r) ==
    IF r.exc # "none" THEN r ELSE read_chars(r, r.ret[1] \div 2)

\* self.read_chars(self.read_byte())
read_string_counted(r) ==
    IF r.exc # "none" THEN r ELSE read_chars(r, r.ret[1])

\* len = None stands for the call without a length
read_string(c, len) ==
    IF len # None THEN read_chars(c, len) ELSE read_string_counted(read_byte(c))

\* left | right, right being the value r returned
or_into(r, lft) ==
    IF r.exc # "none" THEN r ELSE Return(r, <<BitOr(lft, r.ret[1])>>)

\* time << 24 | self.read_short() << 8 | self.read_byte(), r the short
timestamp_three(r, lft) ==
    IF r.exc # "none" THEN r
    ELSE or_into(read_byte(r), BitOr(lft, ShiftL(r.ret[1], 8)))

\* mutant: the byte after the short of a four-byte timestamp is not read
timestamp_rest_short(c, time, count) ==
    IF count = 0 THEN Return(c, <<time>>)
    ELSE IF count = 1 THEN or_into(read_byte(c), ShiftL(time, 8))
    ELSE or_into(read_short(c, LITTLE_ENDIAN), ShiftL(time, 16))

timestamp_rest(c, time, count) ==
    IF count = 0 THEN Return(c, <<time>>)
    ELSE IF count = 1 THEN or_into(read_byte(c), ShiftL(time, 8))
    ELSE IF count = 2 THEN or_into(read_short(c, LITTLE_ENDIAN), ShiftL(time, 16))
    ELSE IF count = 3
    THEN timestamp_three(read_short(c, LITTLE_ENDIAN), ShiftL(time, 24))
    ELSE Raise(c, "ValueError")

timestamp_first(r) ==
    IF r.exc # "none" THEN r
    ELSE timestamp_rest(r, ShiftR(r.ret[1], 2), BitAnd(r.ret[1], 3))

read_timestamp(c) == timestamp_first(read_byte(c))

\* The mask of read_bitmask is a Python long of up to 255 bits.  It is kept
\* as its base-256 digits, least significant first: read returns values
\* below 256, so mask = (mask << 8) | byte puts byte in front as a new digit.
RECURSIVE mask_of(_)
mask_of(bytes) ==
    IF bytes = <<>> THEN <<>>
    ELSE <<bytes[Len(bytes)]>> \o mask_of(SubSeq(bytes, 1, Len(bytes) - 1))

reversed(seq) == [i \in 1..Len(seq) |-> seq[Len(seq) + 1 - i]]

\* (byte & 2**k) > 0 for a long kept as its digits
long_bit(digits, k) ==
    /\ k \div 8 < Len(digits)
    /\ ShiftR(digits[k \div 8 + 1], k % 8) % 2 = 1

RECURSIVE make_mask(_, _, _)
make_mask(byte, bit_length, current) ==
    IF current < bit_length
    THEN <<long_bit(byte, bit_length - current)>>
             \o make_mask(byte, bit_length, current + 1)
    ELSE <<long_bit(byte, 0)>>

bitmask_make(r, len) ==
    IF r.exc # "none" THEN r
    ELSE Return(r, reversed(make_mask(mask_of(reversed(r.ret)), len, 1)))

bitmask_bytes(r) ==
    IF r.exc # "none" THEN r ELSE bitmask_make(read(r, 0, r.ret[1]), r.ret[1])

read_bitmask(c) == bitmask_bytes(read_byte(c))

\* (mask, quotient) for the 12 fraction bits; the quotient 1.0/2**i is held
\* in units of 1/4096, exact for every i
coord_convert == [i \in 1..12 |-> <<2 ^ (12 - i), 4096 \div (2 ^ i)>>]

RECURSIVE coord_fraction(_, _)
coord_fraction(field, i) ==
    IF i > 12 THEN 0
    ELSE (IF BitAnd(field, coord_convert[i][1]) # 0 THEN coord_convert[i][2] ELSE 0)
         + coord_fraction(field, i + 1)

\* coord[0] + fraction, in units of 1/4096
coord_to_float(whole, field) == whole * 4096 + coord_fraction(field, 1)

\* [coord[0], coord[1] << 4 | coord[2]] of the three values of read(bits=20)
coord_dimension_of(r) ==
    IF r.exc # "none" THEN r
    ELSE Return(r, <<coord_to_float(r.ret[1], BitOr(ShiftL(r.ret[2], 4), r.ret[3]))>>)

coord_dimension(c) == coord_dimension_of(read(c, 0, 20))

coord_pair(x, y) == IF y.exc # "none" THEN y ELSE Return(y, x.ret \o y.ret)

coord_second(x) == IF x.exc # "none" THEN x ELSE coord_pair(x, coord_dimension(x))

\* the pair (x, y), x read first
read_coordinate(c) == coord_second(coord_dimension(c))

\* a decoded value with its Python type: a str (its characters), an int,
\* a list (its items in order) or a dict (a function from its keys)
str_value(r) ==
    IF r.exc # "none" THEN r ELSE Return(r, <<[type |-> "str", val |-> r.ret]>>)

int_value(r) ==
    IF r.exc # "none" THEN r ELSE Return(r, <<[type |-> "int", val |-> r.ret[1]]>>)

\* marks a decode that comes to an int of 2^31 or more
TooWide == "TooWide"

\* return self.read_int(), r the four characters it unpacks; TLC's integers
\* are 32-bit, so a value of 2^31 or more ends the decode as TooWide
struct_int(r) ==
    IF r.exc = "none" /\ Len(r.ret) = 4 /\ r.ret[4] >= 128 THEN Raise(r, TooWide)
    ELSE int_value(struct_unpack(r, LITTLE_ENDIAN, 4))

\* return self.read_string(count)
struct_string(r) ==
    IF r.exc # "none" THEN r ELSE str_value(read_string(r, r.ret[1]))

RECURSIVE read_data_struct(_)
RECURSIVE list_items(_, _, _)
RECURSIVE dict_items(_, _, _)

\* mutant: an unknown tag falls off the end of the method, which returns None
unknown_data_struct_silent(c) == Return(c, <<[type |-> "int", val |-> None]>>)

\* fall through every branch: raise TypeError("Unknown Data Structure: ...")
unknown_data_struct(c) == Raise(c, "TypeError")

list_item_next(r, n, items) ==
    IF r.exc # "none" THEN r ELSE list_items(r, n - 1, Append(items, r.ret[1]))

\* [self.read_data_struct() for i in range(n)], items read so far
list_items(c, n, items) ==
    IF n <= 0 THEN Return(c, <<[type |-> "list", val |-> items]>>)
    ELSE list_item_next(read_data_struct(c), n, items)

list_counted(r) ==
    IF r.exc # "none" THEN r ELSE list_items(r, r.ret[1], <<>>)

\* r is the skip(2); then range(self.read_count())
struct_list(r) ==
    IF r.exc # "none" THEN r ELSE list_counted(read_count(r))

\* data[key] = value
dict_value(r, key, n, data) ==
    IF r.exc # "none" THEN r
    ELSE dict_items(r, n - 1, [k \in (DOMAIN data) \cup {key} |->
                                   IF k = key THEN r.ret[1] ELSE data[k]])

\* count = self.read_count(); key, value = count, self.read_data_struct()
dict_key(r, n, data) ==
    IF r.exc # "none" THEN r
    ELSE dict_value(read_data_struct(r), r.ret[1], n, data)

\* for i in range(n), data built so far
dict_items(c, n, data) ==
    IF n <= 0 THEN Return(c, <<[type |-> "dict", val |-> data]>>)
    ELSE dict_key(read_count(c), n, data)

\* r is the read_count() of range(self.read_count())
struct_dict(r) ==
    IF r.exc # "none" THEN r ELSE dict_items(r, r.ret[1], <<>>)

struct_case(c, datatype) ==
    IF datatype = 2 THEN struct_string(read_count(c))
    ELSE IF datatype = 4 THEN struct_list(skip(c, 2))
    ELSE IF datatype = 5 THEN struct_dict(read_count(c))
    ELSE IF datatype = 6 THEN int_value(read_byte(c))
    ELSE IF datatype = 7 THEN struct_int(read_fixed(c, 4))
    ELSE IF datatype = 9 THEN int_value(read_variable_int(c))
    ELSE unknown_data_struct(c)

\* r is the datatype = self.read_byte()
struct_tagged(r) ==
    IF r.exc # "none" THEN r ELSE struct_case(r, r.ret[1])

read_data_struct(c) == struct_tagged(read_byte(c))

----------------------------------------------------------------------------
(* The state machine: one action per public method *)

Here == Cursor(pos, bit_shift, last_byte)

\* the method called `name` with arguments a took the cursor to r
Call(name, a, r) ==
    /\ r.pos <= MaxSeek
    /\ op' = name
    /\ args' = a
    /\ pos' = r.pos
    /\ bit_shift' = r.bit_shift
    /\ last_byte' = r.last_byte
    /\ ret' = r.ret
    /\ exc' = r.exc
    /\ pre' = Here
    /\ UNCHANGED buf

RECURSIVE SeqsUpTo(_, _)
SeqsUpTo(S, n) ==
    IF n = 0 THEN {<<>>}
    ELSE LET shorter == SeqsUpTo(S, n - 1)
         IN shorter \cup {Append(s, x) : s \in shorter, x \in S}

Init ==
    /\ buf \in SeqsUpTo(ByteVals, MaxLen)
    /\ pos = 0
    /\ bit_shift = 0
    /\ last_byte = None
    /\ op = "init"
    /\ args = <<>>
    /\ ret = <<>>
    /\ exc = "none"
    /\ pre = Cursor(0, 0, None)

Seek ==
    \E position \in (0 - MaxSeek)..MaxSeek, mode \in {SEEK_SET, SEEK_CUR, SEEK_END} :
        /\ mode = SEEK_SET => position >= 0 - 1
        /\ mode = SEEK_CUR => position \in (0 - 1)..1
        /\ mode = SEEK_END => position <= 1
        /\ Call("seek", <<position, mode>>, seek(Here, position, mode))

Skip == \E amount \in (0 - 2)..2 : Call("skip", <<amount>>, skip(Here, amount))

Reset == Call("reset", <<>>, reset(Here))

Align == Call("align", <<>>, align(Here))

ReadRange ==
    \E start \in 0..MaxRead, end \in 0..MaxRead :
        /\ start <= end
        /\ Call("read_range", <<start, end>>, read_range(Here, start, end))

Shift == \E bits \in 0..MaxBits : Call("shift", <<bits>>, shift(Here, bits))

Read ==
    \E bytes \in 0..MaxRead, bits \in 0..MaxBits :
        Call("read", <<bytes, bits>>, read(Here, bytes, bits))

Peek == \E len \in 0..(MaxRead + 1) : Call("peek", <<len>>, peek(Here, len))

ReadChars ==
    \E len \in 0..(MaxRead + 1) : Call("read_chars", <<len>>, read_chars(Here, len))

ReadHex ==
    \E len \in 0..(MaxRead + 1) : Call("read_hex", <<len>>, read_hex(Here, len))

ReadByte == Call("read_byte", <<>>, read_byte(Here))

ReadShort ==
    \E endian \in {LITTLE_ENDIAN, BIG_ENDIAN} :
        Call("read_short", <<endian>>, read_short(Here, endian))

IntFits(r, endian) ==
    (r.exc = "none" /\ Len(r.ret) = 4) =>
        r.ret[IF endian = LITTLE_ENDIAN THEN 4 ELSE 1] < 128

\* results of 2^31 and more are left out: TLC's integers are 32-bit
ReadInt ==
    \E endian \in {LITTLE_ENDIAN, BIG_ENDIAN} :
        /\ IntFits(read_fixed(Here, 4), endian)
        /\ Call("read_int", <<endian>>, read_int(Here, endian))

Next ==
    \/ Seek
    \/ Skip
    \/ Reset
    \/ Align
    \/ Peek
    \/ ReadRange
    \/ Shift
    \/ Read

Spec == Init /\ [][Next]_vars

\* the runs in which no call has raised
NextOK ==
    \/ Seek /\ exc' = "none"
    \/ Skip /\ exc' = "none"
    \/ Reset /\ exc' = "none"
    \/ Align /\ exc' = "none"
    \/ Peek /\ exc' = "none"
    \/ ReadRange /\ exc' = "none"
    \/ Shift /\ exc' = "none"
    \/ Read /\ exc' = "none"

SpecOK == Init /\ [][NextOK]_vars

\* the basic readers, with shift and read to leave the byte boundary
NextBasic ==
    \/ Shift
    \/ Read
    \/ ReadChars
    \/ ReadHex
    \/ ReadByte
    \/ ReadShort
    \/ ReadInt

SpecBasic == Init /\ [][NextBasic]_vars

----------------------------------------------------------------------------
(* The replay-specific decoders, over buffers of length, count and flag
   bytes *)

DecodeLen == 4

\* 0, 1, 2 and 147 have the low bits 00, 01, 10 and 11; as lengths they
\* cover an empty, a partial, a whole and an overlong field
DecodeVals == {0, 1, 2, 9, 147}

InitDecode ==
    /\ buf \in SeqsUpTo(DecodeVals, DecodeLen)
    /\ pos = 0
    /\ bit_shift = 0
    /\ last_byte = None
    /\ op = "init"
    /\ args = <<>>
    /\ ret = <<>>
    /\ exc = "none"
    /\ pre = Cursor(0, 0, None)

ReadCount == Call("read_count", <<>>, read_count(Here))

ReadString ==
    \E len \in {None, 0, 1} :
        Call("read_string", <<len>>, read_string(Here, len))

ReadTimestamp == Call("read_timestamp", <<>>, read_timestamp(Here))

ReadBitmask == Call("read_bitmask", <<>>, read_bitmask(Here))

\* shift(3) leaves the byte boundary, shift(5) returns to it
ShiftOff == \E bits \in {3, 5} : Call("shift", <<bits>>, shift(Here, bits))

NextDecode ==
    \/ ReadCount
    \/ ReadString
    \/ ReadTimestamp
    \/ ReadBitmask
    \/ ShiftOff

SpecDecode == InitDecode /\ [][NextDecode]_vars

----------------------------------------------------------------------------
(* Variable-length integers: the buffer starts with the encoding of a value *)

MaxSmall == 70     \* every magnitude up to here
MaxPow == 20       \* and 2^k - 1, 2^k for k up to here

Magnitudes ==
    (0..MaxSmall) \cup {2 ^ k : k \in 0..MaxPow} \cup {2 ^ k - 1 : k \in 0..MaxPow}

VarInts == Magnitudes \cup {0 - m : m \in Magnitudes}

\* bytes that follow the encoding; 147 has its continuation flag set
VarIntTails == {<<>>, <<147>>, <<1, 130>>}

\* little-endian base-128 groups, bit 7 set on every group but the last
RECURSIVE base128(_)
base128(n) ==
    IF n < 128 THEN <<n>> ELSE <<128 + (n % 128)>> \o base128(n \div 128)

\* (|v| << 1) | sign
encode_variable_int(v) ==
    base128(IF v < 0 THEN 2 * (0 - v) + 1 ELSE 2 * v)

InitVarInt ==
    /\ \E v \in VarInts, rest \in VarIntTails :
           buf = encode_variable_int(v) \o rest
    /\ pos = 0
    /\ bit_shift = 0
    /\ last_byte = None
    /\ op = "init"
    /\ args = <<>>
    /\ ret = <<>>
    /\ exc = "none"
    /\ pre = Cursor(0, 0, None)

ReadVariableInt == Call("read_variable_int", <<>>, read_variable_int(Here))

NextVarInt == ReadVariableInt

SpecVarInt == InitVarInt /\ [][NextVarInt]_vars

----------------------------------------------------------------------------
(* Coordinates: buffers long enough for two overlapping coordinate records *)

CoordLen == 6

\* bytes with no bit, a low-nibble bit and a high-nibble bit set
CoordVals == {0, 1, 16}

\* as Call, for offsets up to cap
CallWithin(cap, name, a, r) ==
    /\ r.pos <= cap
    /\ op' = name
    /\ args' = a
    /\ pos' = r.pos
    /\ bit_shift' = r.bit_shift
    /\ last_byte' = r.last_byte
    /\ ret' = r.ret
    /\ exc' = r.exc
    /\ pre' = Here
    /\ UNCHANGED buf

InitCoord ==
    /\ buf \in SeqsUpTo(CoordVals, CoordLen)
    /\ pos = 0
    /\ bit_shift = 0
    /\ last_byte = None
    /\ op = "init"
    /\ args = <<>>
    /\ ret = <<>>
    /\ exc = "none"
    /\ pre = Cursor(0, 0, None)

ReadCoordinate ==
    CallWithin(CoordLen, "read_coordinate", <<>>, read_coordinate(Here))

SkipOne == CallWithin(CoordLen, "skip", <<1>>, skip(Here, 1))

\* shift(4) moves the cursor by half a byte
ShiftHalf == CallWithin(CoordLen, "shift", <<4>>, shift(Here, 4))

NextCoord ==
    \/ ReadCoordinate
    \/ SkipOne
    \/ ShiftHalf

SpecCoord == InitCoord /\ [][NextCoord]_vars

----------------------------------------------------------------------------
(* Tagged structures: buffers of tag and count bytes *)

StructLen == 5

\* the six tags and 0, which is no tag; as count bytes 0, 2 and 4 stand
\* for 0, 1 and 2
StructVals == {0, 2, 4, 5, 6, 7, 9}

\* longer buffers open with a list of two items, a dict of two pairs, a
\* dict in a dict or a list in a list, the first nested value complete
StructHeads ==
    {<<4, 0, 0, 4, 6, 9>>, <<5, 4, 2, 6, 0>>, <<5, 2, 2, 5, 2, 2>>,
     <<4, 0, 0, 2, 4, 0, 0, 2>>}

StructTail == 2

InitStruct ==
    /\ buf \in SeqsUpTo(StructVals, StructLen)
                \cup {head \o tail : head \in StructHeads,
                                     tail \in SeqsUpTo(StructVals, StructTail)}
    /\ pos = 0
    /\ bit_shift = 0
    /\ last_byte = None
    /\ op = "init"
    /\ args = <<>>
    /\ ret = <<>>
    /\ exc = "none"
    /\ pre = Cursor(0, 0, None)

\* a list tag in the last bytes skips to two past the end
\* decodes that come to an int of 2^31 or more are left out
ReadDataStruct ==
    /\ read_data_struct(Here).exc # TooWide
    /\ CallWithin(length + 2, "read_data_struct", <<>>, read_data_struct(Here))

\* the structure starts in the middle of the first byte
ShiftIn ==
    /\ op = "init"
    /\ CallWithin(length, "shift", <<4>>, shift(Here, 4))

NextStruct ==
    \/ ReadDataStruct
    \/ ShiftIn

SpecStruct == InitStruct /\ [][NextStruct]_vars

----------------------------------------------------------------------------
(* Properties *)

\* the position a seek or skip recorded in op, args asked for
Target ==
    IF op = "seek" THEN io_target(pre, args[1], args[2])
    ELSE IF op = "skip" THEN io_target(pre, args[1], SEEK_CUR)
    ELSE pre.pos

\* bytes left in the stream before the last call
LeftBefore == Max(0, length - pre.pos)

\* C1 (as stated): after any sequence of seek, skip, read, shift, align,
\* reset and peek calls the bit offset is in [0,8) and tell() is neither
\* negative nor greater than the buffer length.
C1_Original ==
    /\ bit_shift \in 0..7
    /\ pos >= 0
    /\ pos <= length

\* C1 (amended): the bit offset is in [0,8) and tell() is never negative;
\* tell() is beyond the buffer length only where a seek or skip asked for a
\* position beyond it, or where the call did not move the offset forward.
C1_CursorBounds ==
    /\ bit_shift \in 0..7
    /\ pos >= 0
    /\ pos > length =>
          \/ pos <= pre.pos
          \/ op \in {"seek", "skip"} /\ Target > length

\* a seek has gone past the end of the buffer
C1_Witness ==
    /\ op = "seek"
    /\ exc = "none"
    /\ pos > length
    /\ pre.pos <= length

\* C2 (as stated): in every state reached by successful calls, a bit offset
\* other than 0 means the byte offset is at least 1 and last_byte is the
\* buffer byte at offset - 1.
C2_Original ==
    bit_shift # 0 =>
        /\ pos >= 1
        /\ pos <= length
        /\ last_byte = buf[pos]

\* C2 (amended): in every state reached by successful calls, a bit offset
\* other than 0 at a byte offset other than 0 means last_byte is the buffer
\* byte at offset - 1; at byte offset 0 the cache keeps the byte it had.
C2_CacheHolds ==
    (bit_shift # 0 /\ pos # 0) =>
        /\ pos <= length
        /\ last_byte = buf[pos]

\* a seek in the middle of a byte moved the cursor and loaded another byte
C2_Witness ==
    /\ op = "seek"
    /\ pre.bit_shift # 0
    /\ pos # 0
    /\ pos # pre.pos
    /\ last_byte # pre.last_byte

\* C3 (as stated): peek(n), for every cursor and every n >= 0, leaves the
\* byte offset, the bit offset and the cached byte as they were.
C3_PeekFrame ==
    op = "peek" =>
        /\ pos = pre.pos
        /\ bit_shift = pre.bit_shift
        /\ last_byte = pre.last_byte

\* bytes the last read operation had to take from the stream
BytesNeeded ==
    IF op = "read_byte" THEN 1
    ELSE IF op = "read_short" THEN 2
    ELSE IF op = "read_int" THEN 4
    ELSE IF op \in {"read_chars", "read_hex"} THEN args[1]
    ELSE IF op = "shift"
    THEN (IF pre.bit_shift = 0 /\ args[1] \in 1..8 THEN 1 ELSE 0)
    ELSE IF op = "read"
    THEN LET total == 8 * args[1] + args[2]
             cached == IF pre.bit_shift = 0 THEN 0 ELSE 8 - pre.bit_shift
         IN IF total <= cached THEN 0 ELSE (total - cached + 7) \div 8
    ELSE 0

\* C4 (as stated): every read operation that would consume bytes beyond the
\* buffer's length raises EOFError, aligned or not; none returns a
\* shortened result or raises another error.
C4_EndOfStream ==
    BytesNeeded > LeftBefore => exc = "EOFError"

\* shift(8) b times, then shift(k) once, from cursor c: the values returned
\* so far are in out
RECURSIVE ShiftSequence(_, _, _, _)
ShiftSequence(c, b, k, out) ==
    LET s == shift(c, IF b = 0 THEN k ELSE 8)
    IN IF s.exc # "none" THEN s
       ELSE IF b = 0 THEN Return(s, out \o s.ret)
       ELSE ShiftSequence(s, b - 1, k, out \o s.ret)

\* the stream holds the bits read(b, k) asks for
ReadFits == 8 * args[1] + args[2] <= 8 * (length - pre.pos)

SameAsShifts(s, withCache) ==
    /\ s.exc = "none"
    /\ exc = "none"
    /\ ret = s.ret
    /\ pos = s.pos
    /\ bit_shift = s.bit_shift
    /\ withCache => last_byte = s.last_byte

\* C5 (as stated): for all b >= 0 and k >= 0 within the bits left, read(b, k)
\* at bit offset 0 returns what shift(8) b times and shift(k) once return,
\* and both leave the cursor in the same state.
C5_Original ==
    (op = "read" /\ pre.bit_shift = 0 /\ ReadFits) =>
        SameAsShifts(ShiftSequence(pre, args[1], args[2], <<>>), TRUE)

\* C5 (amended): for all b >= 0 and k in 1..8 within the bits left,
\* read(b, k) at bit offset 0 returns what shift(8) b times and shift(k) once
\* return and leaves the same byte offset and bit offset; for k in 1..7 it
\* leaves the same cached byte too.
C5_ReadAsShifts ==
    (op = "read" /\ pre.bit_shift = 0 /\ ReadFits /\ args[2] \in 1..8) =>
        SameAsShifts(ShiftSequence(pre, args[1], args[2], <<>>), args[2] <= 7)

\* an aligned read of whole bytes and a partial byte
C5_Witness ==
    /\ op = "read"
    /\ pre.bit_shift = 0
    /\ ReadFits
    /\ args[1] >= 1
    /\ args[2] \in 1..7
    /\ Len(ret) = args[1] + 1

\* C6: for w in 1..8 and bit offset o with w <= 8 - o, shift(w) returns
\* (B >> o) & (2^w - 1), B being the cached byte when o # 0 and the next
\* stream byte when o = 0, and leaves the bit offset (o + w) mod 8.
C6_ShiftBits ==
    (/\ op = "shift"
     /\ args[1] \in 1..8
     /\ args[1] <= 8 - pre.bit_shift
     /\ pre.bit_shift # 0 \/ pre.pos < length) =>
        LET o == pre.bit_shift
            w == args[1]
            B == IF o # 0 THEN pre.last_byte ELSE buf[pre.pos + 1]
        IN /\ exc = "none"
           /\ ret = <<(B \div 2 ^ o) % 2 ^ w>>
           /\ bit_shift = (o + w) % 8

\* a shift inside a byte that returns a non-zero field
C6_Witness ==
    /\ op = "shift"
    /\ pre.bit_shift = 3
    /\ args = <<4>>
    /\ exc = "none"
    /\ ret # <<0>>
    /\ bit_shift = 7

\* the value read_byte would return from the cursor the last call started at
LeadByte ==
    IF pre.bit_shift = 0 THEN buf[pre.pos + 1] ELSE read(pre, 1, 0).ret[1]

\* a first byte can be read from where the last call started
HasLead == pre.pos < length

\* C7 (as stated): read_string() without a length reads one count byte, takes
\* half of its raw value as the length and returns exactly that many bytes.
C7_Original ==
    (op = "read_string" /\ args = <<None>> /\ HasLead
        /\ LeadByte \div 2 <= length - pre.pos - 1) =>
        /\ exc = "none"
        /\ Len(ret) = LeadByte \div 2
        /\ pos = pre.pos + 1 + LeadByte \div 2

\* C7 (amended): read_string() without a length reads one length byte and
\* takes its raw value, not halved, as the length; when that many bytes are
\* left it returns exactly that many, the bytes that follow the length byte
\* when the cursor is byte-aligned.
C7_RawLength ==
    (op = "read_string" /\ args = <<None>> /\ HasLead
        /\ LeadByte <= length - pre.pos - 1) =>
        /\ exc = "none"
        /\ Len(ret) = LeadByte
        /\ pos = pre.pos + 1 + LeadByte
        /\ pre.bit_shift = 0 => ret = SubSeq(buf, pre.pos + 2, pre.pos + 1 + LeadByte)

\* a length byte of 2 or more, followed by that many bytes
C7_Witness ==
    /\ op = "read_string"
    /\ args = <<None>>
    /\ HasLead
    /\ LeadByte >= 2
    /\ exc = "none"
    /\ Len(ret) = LeadByte

\* C8 (as stated): read_timestamp consumes the leading byte and 0 to 2
\* trailing bytes (none for low bits 00, one for 01), never more than 3.
C8_Original ==
    op = "read_timestamp" =>
        /\ pos - pre.pos <= 3
        /\ (exc = "none" /\ LeadByte % 4 \in {0, 1}) =>
               pos - pre.pos = 1 + (LeadByte % 4)

\* C8 (amended): read_timestamp consumes the leading byte and as many
\* trailing bytes as its low 2 bits say: none for 00, one for 01, two for
\* 10, three for 11; never more than 4 bytes in total.
C8_TimestampBytes ==
    op = "read_timestamp" =>
        /\ pos - pre.pos \in 0..4
        /\ exc = "none" => pos - pre.pos = 1 + (LeadByte % 4)

\* a timestamp of four bytes
C8_Witness ==
    /\ op = "read_timestamp"
    /\ exc = "none"
    /\ LeadByte % 4 = 3
    /\ pos - pre.pos = 4

\* bit i (from 0) of the stream that follows the length byte, least
\* significant bit of each byte first
StreamBit(i) == (buf[pre.pos + 2 + i \div 8] \div 2 ^ (i % 8)) % 2 = 1

\* C9 (as stated): for every length byte L read at a byte-aligned cursor,
\* read_bitmask returns exactly L booleans, element i being the i-th bit
\* read after the length byte.
C9_Bitmask ==
    (op = "read_bitmask" /\ pre.bit_shift = 0 /\ exc = "none") =>
        /\ Len(ret) = LeadByte
        /\ \A i \in 1..Len(ret) : ret[i] = StreamBit(i - 1)

\* C9 without the empty mask: the same for every L >= 1
C9_NonEmpty ==
    (op = "read_bitmask" /\ pre.bit_shift = 0 /\ exc = "none" /\ LeadByte >= 1) =>
        /\ Len(ret) = LeadByte
        /\ \A i \in 1..Len(ret) : ret[i] = StreamBit(i - 1)

\* C10: read_variable_int on the encoding of v returns v, consumes exactly
\* the encoded bytes and stops at the first byte without continuation flag.
C10_RoundTrip ==
    (op = "read_variable_int" /\ pre.pos = 0) =>
        \A v \in VarInts, rest \in VarIntTails :
            buf = encode_variable_int(v) \o rest =>
                /\ exc = "none"
                /\ ret = <<v>>
                /\ pos = Len(encode_variable_int(v))
                /\ buf[pos] < 128
                /\ \A i \in 1..(pos - 1) : buf[i] >= 128

\* a negative value of three groups, with bytes after it, was decoded
C10_Witness ==
    /\ op = "read_variable_int"
    /\ pre.pos = 0
    /\ exc = "none"
    /\ ret[1] < 0
    /\ pos = 3
    /\ pos < length

\* the absolute bit position of a cursor
BitPos(c) == IF c.bit_shift = 0 THEN 8 * c.pos ELSE 8 * (c.pos - 1) + c.bit_shift

\* the 20 bits of the stream from absolute bit position p, in reading order
\* (least significant bit of each byte first)
Field(p) == [i \in 1..20 |-> (buf[(p + i - 1) \div 8 + 1] \div 2 ^ ((p + i - 1) % 8)) % 2]

\* the cursor at byte offset q with bit offset bs
CursorAt(q, bs) == Cursor(q, bs, IF bs = 0 THEN None ELSE buf[q])

\* C11 (as stated): each axis is an 8-bit integer part plus a 12-bit
\* fraction of its own 20-bit field, and two fields that differ in any bit
\* decode to different axis values, also for a field that starts mid-byte:
\* the axis just decoded differs from the same axis decoded at any other
\* byte offset of the buffer whose field differs.
C11_Coordinate ==
    (op = "read_coordinate" /\ exc = "none") =>
        \A i \in 1..2 :
            /\ ret[i] \in 0..(256 * 4096 - 1)
            /\ \A q \in (IF pre.bit_shift = 0 THEN 0 ELSE 1)..length :
                   LET other == read_coordinate(CursorAt(q, pre.bit_shift))
                       there == BitPos(CursorAt(q, pre.bit_shift)) + 20 * (i - 1)
                       here  == BitPos(pre) + 20 * (i - 1)
                   IN  (other.exc = "none" /\ Field(there) # Field(here))
                           => other.ret[i] # ret[i]

\* C11 for x read at a byte boundary: the integer part is the first byte,
\* the fraction the second byte and the low four bits of the third
C11_AlignedX ==
    (op = "read_coordinate" /\ exc = "none" /\ pre.bit_shift = 0) =>
        ret[1] = buf[pre.pos + 1] * 4096 + buf[pre.pos + 2] * 16
                   + (buf[pre.pos + 3] % 16)

\* what the code does for y after a byte-aligned x: its fraction never
\* reaches 256/4096
C11_ShortY ==
    (op = "read_coordinate" /\ exc = "none" /\ pre.bit_shift = 0) =>
        ret[2] % 4096 < 256

\* the k-th byte (from 0) a run of read_byte calls returns from the cursor
\* the last call started at: mid-byte, the bits left of one buffer byte
\* above the low bits of the next
ByteAt(k) ==
    IF pre.bit_shift = 0 THEN buf[pre.pos + k + 1]
    ELSE (buf[pre.pos + k] \div 2 ^ pre.bit_shift) * 2 ^ pre.bit_shift
           + (buf[pre.pos + k + 1] % 2 ^ pre.bit_shift)

Readable(k) == pre.pos + k + 1 <= length

KnownTags == {2, 4, 5, 6, 7, 9}

BadTag == 0 - 1
RunsOut == 0 - 2

\* the index after the variable-length integer that starts at byte k
RECURSIVE WalkVarInt(_)
WalkVarInt(k) ==
    IF ~Readable(k) THEN RunsOut
    ELSE IF ByteAt(k) >= 128 THEN WalkVarInt(k + 1)
    ELSE k + 1

\* the index after the structure whose tag is byte k, BadTag where the
\* decoder comes to a tag outside KnownTags, RunsOut where the stream ends
\* before that
RECURSIVE Walk(_)
RECURSIVE WalkList(_, _)
RECURSIVE WalkDict(_, _)
Walk(k) ==
    IF ~Readable(k) THEN RunsOut
    ELSE IF ByteAt(k) \notin KnownTags THEN BadTag
    ELSE IF ByteAt(k) = 9 THEN WalkVarInt(k + 1)
    ELSE IF ~Readable(k + 1) THEN RunsOut
    ELSE IF ByteAt(k) = 2
         THEN (IF ByteAt(k + 1) \div 2 = 0 \/ Readable(k + 1 + ByteAt(k + 1) \div 2)
               THEN k + 2 + ByteAt(k + 1) \div 2 ELSE RunsOut)
    ELSE IF ByteAt(k) = 4
         THEN (IF Readable(k + 3) THEN WalkList(k + 4, ByteAt(k + 3) \div 2)
               ELSE RunsOut)
    ELSE IF ByteAt(k) = 5 THEN WalkDict(k + 2, ByteAt(k + 1) \div 2)
    ELSE IF ByteAt(k) = 6 THEN k + 2
    ELSE IF Readable(k + 4) THEN k + 5 ELSE RunsOut

WalkList(k, n) ==
    IF n = 0 THEN k
    ELSE LET after == Walk(k)
         IN  IF after < 0 THEN after ELSE WalkList(after, n - 1)

WalkDict(k, n) ==
    IF n = 0 THEN k
    ELSE IF ~Readable(k) THEN RunsOut
    ELSE LET after == Walk(k + 1)
         IN  IF after < 0 THEN after ELSE WalkDict(after, n - 1)

\* C12: read_data_struct raises TypeError, the unknown-data-structure
\* error, and returns no value whenever the tag it reads at the top level
\* or for a list item or a dict value at any depth is none of 0x02, 0x04,
\* 0x05, 0x06, 0x07, 0x09.
C12_UnknownTag ==
    (op = "read_data_struct" /\ Walk(0) = BadTag) =>
        /\ exc = "TypeError"
        /\ ret = <<>>

\* the second item of a list, read mid-byte or not, had an unknown tag
C12_Witness ==
    /\ op = "read_data_struct"
    /\ Walk(0) = BadTag
    /\ ByteAt(0) = 4
    /\ ByteAt(3) = 4
    /\ Walk(4) = 6
    /\ exc = "TypeError"
    /\ ret = <<>>

\* a TypeError comes from an unknown tag or from the end of the stream
C12_OnlyThen ==
    (op = "read_data_struct" /\ exc = "TypeError") => Walk(0) \in {BadTag, RunsOut}

\* C13: with P the absolute bit position (BitPos), every successful
\* read(b, k), from any bit offset and through any of its four cases,
\* advances P by exactly 8*b + k and returns exactly ceil((8*b + k)/8)
\* values, each in 0..255; a zero-bit read returns the empty list and
\* changes nothing.
C13_ReadAdvance ==
    (op = "read" /\ exc = "none") =>
        /\ BitPos(Here) - BitPos(pre) = 8 * args[1] + args[2]
        /\ Len(ret) = (8 * args[1] + args[2] + 7) \div 8
        /\ \A i \in 1..Len(ret) : ret[i] \in 0..255
        /\ (8 * args[1] + args[2] = 0) => (ret = <<>> /\ Here = pre)

\* a read that started mid-byte went through the general case, crossed a
\* whole byte and ended mid-byte further on
C13_Witness ==
    /\ op = "read"
    /\ exc = "none"
    /\ pre.bit_shift # 0
    /\ args[1] >= 1
    /\ bit_shift > pre.bit_shift
    /\ pos = pre.pos + args[1]
    /\ Len(ret) = args[1] + 1

TypeOK ==
    /\ pos \in 0..length + 2
    /\ bit_shift \in 0..7

====
